---- MODULE Spec2Model ----
(***************************************************************************)
(* Model of the medication voice-capture modal (MedicationLogModal) and of *)
(* the parts of App and geminiService it talks to.                         *)
(*                                                                         *)
(* The whole component is one record `modal`: React state, the snapshot    *)
(* the last render closed over, the four refs, the browser/SDK resources   *)
(* each startListening call acquires, the suspended async continuations,   *)
(* and history fields the properties read.  Handlers are operators from    *)
(* record to record, so that one action can run a handler, the render it   *)
(* causes and the effects of that render, as React does.                   *)
(*                                                                         *)
(* `app` is the state of the App component (the five reading lists, the    *)
(* medication catalogue, the clock), and `svc` is the last call of a       *)
(* geminiService operation with what the backend answered and what the     *)
(* operation gave back.  Spec runs the modal, SpecApp the reading log and  *)
(* the catalogue, SpecService the service operations.                      *)
(***************************************************************************)
EXTENDS Integers, Sequences, FiniteSets, TLC

VARIABLES modal, app, svc

vars == <<modal, app, svc>>

\* ---- bounds -------------------------------------------------------------

MaxStarts == 2       \* startListening calls that pass the guard, per run

MaxEvents == 2       \* transcript fragments and catalogue changes, per run

MaxCatVersion == 2   \* calls of saveUserMedication / deleteUserMedication

CountCap == 2        \* release counters saturate here

MaxAdds == 2         \* add calls of the reading log, per run

MaxTicks == 1        \* times the clock is seen to have advanced, per run

MaxQuantity == 1     \* largest quantity the backend answers with

\* ---- values -------------------------------------------------------------

NULL == 0

Sessions == 1..MaxStarts

Fragments == {"a", "b"}

NoTranscription == "none"

\* dummyData.ts line 3: the instant the page was loaded.
PageLoad == 10

initialUserMedications ==
  << [id |-> "um1", name |-> "Metformin", dosage |-> 500, unit |-> "mg"],
     [id |-> "um2", name |-> "Insulin Aspart (NovoRapid)", dosage |-> 1,
      unit |-> "units"],
     [id |-> "um3", name |-> "Gliclazide", dosage |-> 80, unit |-> "mg"] >>

\* What the settings form hands to saveUserMedication: no id (a new entry),
\* the id of an entry (an edit), or an id no entry has.
NoId == ""

NewMedication ==
  [id |-> NoId, name |-> "Aspirin", dosage |-> 75, unit |-> "mg"]

EditedMedication ==
  [id |-> "um1", name |-> "Metformin", dosage |-> 850, unit |-> "mg"]

StaleMedication ==
  [id |-> "um9", name |-> "Ramipril", dosage |-> 5, unit |-> "mg"]

\* medData.med === null, and the null of parseMedicationFromText.
NoMed == [id |-> NoId, name |-> "", dosage |-> 0, unit |-> ""]

NoResult == [matchedMed |-> NoMed, quantity |-> 0]

\* ---- JavaScript values -------------------------------------------------
\* A value of JSON.parse is a record with its type tag t and, by the tag, its
\* boolean b, number n or string s; an object has its fields in f, a field
\* the object lacks reading undefined.

Undefined == [t |-> "undefined", b |-> FALSE, n |-> 0, s |-> ""]

JNull == [t |-> "null", b |-> FALSE, n |-> 0, s |-> ""]

JBool(b) == [t |-> "boolean", b |-> b, n |-> 0, s |-> ""]

JNum(n) == [t |-> "number", b |-> FALSE, n |-> n, s |-> ""]

JStr(str) == [t |-> "string", b |-> FALSE, n |-> 0, s |-> str]

JObj(fields) == [t |-> "object", f |-> fields]

\* ToBoolean of a value.
Truthy(v) ==
  CASE v.t = "boolean" -> v.b
    [] v.t = "number" -> v.n # 0
    [] v.t = "string" -> v.s # ""
    [] v.t \in {"undefined", "null"} -> FALSE
    [] OTHER -> TRUE

\* String.prototype.toLowerCase on the names used here.
toLowerCase(str) ==
  CASE str \in {"Metformin", "METFORMIN", "metformin"} -> "metformin"
    [] str \in {"Gliclazide", "gliclazide"} -> "gliclazide"
    [] str = "Insulin Aspart (NovoRapid)" -> "insulin aspart (novorapid)"
    [] str \in {"Aspirin", "aspirin"} -> "aspirin"
    [] str = "Ramipril" -> "ramipril"
    [] str = "Metformin XR" -> "metformin xr"
    [] str = "Ibuprofen" -> "ibuprofen"
    [] OTHER -> str

\* What one generateContent call ends in: the promise rejects (transport or
\* backend failure), or response.text is not JSON, or it parses to a value.
Rejected == [kind |-> "reject", parsed |-> JNull]

Unparsable == [kind |-> "garbage", parsed |-> JNull]

Json(v) == [kind |-> "json", parsed |-> v]

\* The answers to the medication prompt that the modal is run with.
ResponseNames == {"metformin", "Ibuprofen"}

Responses ==
  {Rejected}
    \cup {Json(JObj([name |-> JStr(nm), quantity |-> JNum(q)])) :
             nm \in ResponseNames, q \in 0..MaxQuantity}

NoMedData == [med |-> NoMed, quantity |-> 0, transcript |-> <<>>]

Merge(m, upd) == [k \in DOMAIN m |-> IF k \in DOMAIN upd THEN upd[k] ELSE m[k]]

Bump(n) == IF n < CountCap THEN n + 1 ELSE CountCap

\* The state setters of useState (and of App's useState for isOpen and
\* userMedications).
setState(m, upd) == Merge(m, upd)

\* The React state a render closes over.
View(m) ==
  [isOpen |-> m.isOpen, activeTab |-> m.activeTab, voiceStep |-> m.voiceStep,
   medData |-> m.medData, currentTranscript |-> m.currentTranscript,
   isLoading |-> m.isLoading, error |-> m.error, isListening |-> m.isListening,
   userMedications |-> m.userMedications]

Dirty(m) == View(m) # m.rendered

\* ---- resources ----------------------------------------------------------

StreamLive(m, s) == m.stream[s] = "live"

ContextLive(m, s) == m.ctx[s] \in {"running", "closing"}

ChannelLive(m, s) == m.chan[s] \in {"connecting", "open"}

Unreleased(m, s) == StreamLive(m, s) \/ ContextLive(m, s) \/ ChannelLive(m, s)

Settled(m) ==
  /\ \A s \in Sessions : m.startPc[s] \in {"none", "done"}
  /\ m.stopWait = {}

\* AudioContext.state as the page reads it.
ContextStateAttr(m, c) == IF m.ctx[c] = "closed" THEN "closed" ELSE "running"

\* ---- geminiService -----------------------------------------------------

\* What an operation's promise settles to, and how many generateContent
\* requests the call made.
Fulfil(v, n) == [settled |-> "fulfilled", value |-> v, error |-> "", requests |-> n]

Throw(msg, n) == [settled |-> "rejected", value |-> JNull, error |-> msg, requests |-> n]

JArr(items) == [t |-> "array", items |-> items]

\* parsed.k, for a parsed that is neither null nor undefined.
Get(v, k) ==
  IF v.t = "object" /\ k \in DOMAIN v.f THEN v.f[k] ELSE Undefined

\* Lines 218-219, 252-253, 565, 651: JSON.parse(response.text.trim()).k
\* inside the try; a rejection, unparsable text and a property read on null
\* all land in the catch, which returns false.
ParsedField(o, k) ==
  IF o.kind # "json" \/ o.parsed.t \in {"null", "undefined"}
  THEN JBool(FALSE)
  ELSE Get(o.parsed, k)

isImageOfGlucoseMeter(o) == Fulfil(ParsedField(o, "isMeter"), 1)

isImageOfFood(o) == Fulfil(ParsedField(o, "isFood"), 1)

isImageOfWeightScale(o) == Fulfil(ParsedField(o, "isScale"), 1)

isImageOfBloodPressureMonitor(o) == Fulfil(ParsedField(o, "isMonitor"), 1)

\* Lines 284-295 and 339-350: the validation of a glucose answer.
GlucoseChecked(o) ==
  IF o.kind # "json" THEN JNull
  ELSE LET parsed == o.parsed
       IN  IF /\ Truthy(parsed)
              /\ Get(parsed, "value").t = "number"
              /\ Get(parsed, "unit").t = "string"
              /\ Get(parsed, "context").t = "string"
           THEN parsed
           ELSE JNull

parseGlucoseReadingFromText(o) == Fulfil(GlucoseChecked(o), 1)

parseGlucoseReadingFromImage(c, o) ==
  LET isMeter == isImageOfGlucoseMeter(c)
  IN  IF ~Truthy(isMeter.value)
      THEN Throw("Image does not appear to contain a glucose meter.",
                 isMeter.requests)
      ELSE Fulfil(GlucoseChecked(o), isMeter.requests + 1)

\* Lines 470-482 and 538-549: the validation of a meal answer.
MealChecked(o) ==
  IF o.kind # "json" THEN JNull
  ELSE LET parsed == o.parsed
       IN  IF /\ Truthy(parsed)
              /\ Get(parsed, "foodItems").t = "array"
              /\ Truthy(Get(parsed, "totalNutrition"))
           THEN parsed
           ELSE JNull

analyzeMealPhoto(c, o) ==
  LET isFood == isImageOfFood(c)
  IN  IF ~Truthy(isFood.value)
      THEN Throw("Image does not appear to contain food.", isFood.requests)
      ELSE Fulfil(MealChecked(o), isFood.requests + 1)

parseMealFromText(o) == Fulfil(MealChecked(o), 1)

\* Lines 596-604 and 627-635: the validation of a weight answer.
WeightChecked(o) ==
  IF o.kind # "json" THEN JNull
  ELSE LET parsed == o.parsed
       IN  IF /\ Truthy(parsed)
              /\ Get(parsed, "value").t = "number"
              /\ Get(parsed, "unit") \in {JStr("kg"), JStr("lbs")}
           THEN parsed
           ELSE JNull

parseWeightFromImage(c, o) ==
  LET isScale == isImageOfWeightScale(c)
  IN  IF ~Truthy(isScale.value)
      THEN Throw("Image does not appear to contain a weight scale.",
                 isScale.requests)
      ELSE Fulfil(WeightChecked(o), isScale.requests + 1)

parseWeightFromText(o) == Fulfil(WeightChecked(o), 1)

\* Lines 683-691 and 715-723: the validation of a blood pressure answer.
BloodPressureChecked(o) ==
  IF o.kind # "json" THEN JNull
  ELSE LET parsed == o.parsed
       IN  IF /\ Truthy(parsed)
              /\ Get(parsed, "systolic").t = "number"
              /\ Get(parsed, "diastolic").t = "number"
              /\ Get(parsed, "pulse").t = "number"
           THEN parsed
           ELSE JNull

parseBloodPressureFromImage(c, o) ==
  LET isMonitor == isImageOfBloodPressureMonitor(c)
  IN  IF ~Truthy(isMonitor.value)
      THEN Throw("Image does not appear to contain a blood pressure monitor.",
                 isMonitor.requests)
      ELSE Fulfil(BloodPressureChecked(o), isMonitor.requests + 1)

parseBloodPressureFromText(o) == Fulfil(BloodPressureChecked(o), 1)

\* find with the names compared as they are written.
FindByName_exact(userMedications, name) ==
  LET hits == {i \in 1..Len(userMedications) : userMedications[i].name = name}
  IN  IF hits = {} THEN NoMed
      ELSE userMedications[CHOOSE i \in hits : \A j \in hits : i <= j]

\* Array.prototype.find by name, as line 386 calls it: the first entry whose
\* lower-cased name is the lower-cased name given, or NoMed.
FindByName(userMedications, name) ==
  LET hits == {i \in 1..Len(userMedications) :
                 toLowerCase(userMedications[i].name) = toLowerCase(name)}
  IN  IF hits = {} THEN NoMed
      ELSE userMedications[CHOOSE i \in hits : \A j \in hits : i <= j]

\* Lines 360-397.  The value is {matchedMed, quantity}, NoResult standing for
\* null.
parseMedicationFromText(userMedications, o) ==
  IF Len(userMedications) = 0 THEN Fulfil(NoResult, 0)
  ELSE IF o.kind # "json" THEN Fulfil(NoResult, 1)
  ELSE LET parsed == o.parsed
           name == Get(parsed, "name")
           quantity == Get(parsed, "quantity")
       IN  IF /\ Truthy(parsed)
              /\ name.t = "string"
              /\ quantity.t = "number"
              /\ quantity.n > 0
              /\ FindByName(userMedications, name.s) # NoMed
           THEN Fulfil([matchedMed |-> FindByName(userMedications, name.s),
                        quantity |-> quantity.n], 1)
           ELSE Fulfil(NoResult, 1)

\* ---- App: the reading lists and the catalogue ---------------------------
\* An instant is a reading of Date.now(); a timestamp is the instant its ISO
\* string names.  The seeded entries keep the order and the ties of their
\* offsets from the page load.  An entry's seq is the number of the add call
\* that made it (0 for the seeded entries).

RECURSIVE SortDesc(_)
\* Array.prototype.sort with (a, b) => time(b) - time(a): stable, so an entry
\* stays behind the entries of the same instant that were before it.
SortDesc(list) ==
  IF list = <<>> THEN <<>>
  ELSE LET sorted == SortDesc(SubSeq(list, 1, Len(list) - 1))
           x == list[Len(list)]
           k == Cardinality({i \in 1..Len(sorted) :
                               sorted[i].timestamp >= x.timestamp})
       IN  SubSeq(sorted, 1, k) \o <<x>> \o SubSeq(sorted, k + 1, Len(sorted))

WithId(reading, id) == [reading EXCEPT !.id = id]

addGlucoseReading(prev, reading, now) ==
  SortDesc(Append(prev, WithId(reading, "g" \o ToString(now))))

addMeal(prev, meal, now) ==
  SortDesc(Append(prev, WithId(meal, "m" \o ToString(now))))

\* The setter given the new list instead of the updater of line 51: the
\* entries logged before are dropped.
addMedication_overwrite(prev, medication, now) ==
  SortDesc(<<WithId(medication, "med" \o ToString(now))>>)

addMedication(prev, medication, now) ==
  SortDesc(Append(prev, WithId(medication, "med" \o ToString(now))))

addWeightReading(prev, reading, now) ==
  SortDesc(Append(prev, WithId(reading, "w" \o ToString(now))))

addBloodPressureReading(prev, reading, now) ==
  SortDesc(Append(prev, WithId(reading, "bp" \o ToString(now))))

\* Lines 62-71.  med carries every field, so {...existing, ...med} is med.
saveUserMedication(prev, med, now) ==
  IF \E i \in 1..Len(prev) : prev[i].id = med.id
  THEN [i \in 1..Len(prev) |-> IF prev[i].id = med.id THEN med ELSE prev[i]]
  ELSE Append(prev, WithId(med, "um" \o ToString(now)))

IdIsNot(id, m) == m.id # id

deleteUserMedication(prev, id) ==
  SelectSeq(prev, LAMBDA m : IdIsNot(id, m))

Tagged(list, type) ==
  [i \in 1..Len(list) |->
     [id |-> list[i].id, timestamp |-> list[i].timestamp,
      seq |-> list[i].seq, type |-> type]]

\* Lines 78-84 (of an entry, the fields the ordering and the properties read).
combinedLogs(a) ==
  SortDesc(Tagged(a.glucoseReadings, "glucose")
             \o Tagged(a.meals, "meal")
             \o Tagged(a.medications, "medication")
             \o Tagged(a.weightReadings, "weight")
             \o Tagged(a.bloodPressureReadings, "blood_pressure"))

Reading(id, timestamp, value) ==
  [id |-> id, timestamp |-> timestamp, value |-> value, seq |-> 0]

initialGlucoseReadings ==
  << Reading("g1", PageLoad - 8, 52),
     Reading("g2", PageLoad - 5, 89),
     Reading("g3", PageLoad - 1, 48) >>

initialMeals == << Reading("m1", PageLoad - 6, 45) >>

initialMedications ==
  << [id |-> "med1", name |-> "Metformin", dosage |-> 500, unit |-> "mg",
      quantity |-> 1, timestamp |-> PageLoad - 6, transcript |-> <<>>,
      source |-> "manual", seq |-> 0] >>

\* Lines 21-26, with the clock at the page load.
InitApp ==
  [glucoseReadings |-> initialGlucoseReadings,
   meals |-> initialMeals,
   medications |-> initialMedications,
   weightReadings |-> <<>>,
   bloodPressureReadings |-> <<>>,
   userMedications |-> initialUserMedications,
   now |-> PageLoad,
   nAdded |-> 0]

\* ---- handlers of MedicationLogModal ------------------------------------

\* Lines 72-75: up to the await of parseMedicationFromText.
handleParseMedication(m, text, cat) ==
  LET m1 == setState(m, [isLoading |-> TRUE, error |-> ""])
  IN  [m1 EXCEPT !.parseTasks = Append(@, [text |-> text, cat |-> cat]),
                 !.parseCount = Bump(@)]

\* The continuation with setIsLoading(false) at the end of the try block and
\* not in a finally: a null result leaves the flag set.
parseContinuation_nofinally(m, text, result) ==
  IF result # NoResult
  THEN setState(setState(m, [medData |-> [med |-> result.matchedMed,
                                          quantity |-> result.quantity,
                                          transcript |-> text],
                             voiceStep |-> "confirm"]),
                [isLoading |-> FALSE])
  ELSE setState(m, [error |-> "couldnt_understand"])

\* Lines 76-87: after the await.
parseContinuation(m, text, result) ==
  LET m1 == IF result # NoResult
            THEN setState(m, [medData |-> [med |-> result.matchedMed,
                                           quantity |-> result.quantity,
                                           transcript |-> text],
                              voiceStep |-> "confirm"])
            ELSE setState(m, [error |-> "couldnt_understand"])
  IN  setState(m1, [isLoading |-> FALSE])

\* Lines 82-87: the call threw.
parseThrown(m) ==
  setState(setState(m, [error |-> "error_occurred"]), [isLoading |-> FALSE])

\* Lines 104-107.
closeSession(m) ==
  IF m.sessionRef # NULL
  THEN [m EXCEPT !.chan[m.sessionRef] = "closed",
                 !.chanCloses[m.sessionRef] = Bump(@),
                 !.sessionRef = NULL]
  ELSE m

\* Line 101, the call of close(): the context starts closing and stopListening
\* is suspended on the promise.  A close() on a context that is already being
\* closed rejects, which ends that stopListening call.  Whether the state
\* attribute reads "closed" at once or only when the promise resolves depends
\* on the browser (closeSync).
closeContext(m) ==
  LET c == m.inputAudioContextRef
  IN  IF m.ctx[c] = "running"
      THEN [m EXCEPT !.ctx[c] = IF m.closeSync THEN "closed" ELSE "closing",
                     !.ctxCloses[c] = Bump(@),
                     !.stopWait = @ \cup {c}]
      ELSE [m EXCEPT !.ctxCloses[c] = Bump(@)]

\* Lines 102-107: stopListening after the await.
afterClose(m) == closeSession([m EXCEPT !.inputAudioContextRef = NULL])

\* Lines 90-107, up to the await of line 101 or to the end.
stopListening(m) ==
  LET m0 == [setState(m, [isListening |-> FALSE]) EXCEPT
               !.stoppedEarly =
                   @ \cup {s \in Sessions : m.startPc[s] \in {"gum", "connect"}}]
      m1 == IF m0.streamRef # NULL
            THEN [m0 EXCEPT !.stream[m0.streamRef] = "stopped",
                            !.trackStops[m0.streamRef] = Bump(@),
                            !.streamRef = NULL]
            ELSE m0
      m2 == IF m1.scriptProcessorRef # NULL
            THEN [m1 EXCEPT !.proc[m1.scriptProcessorRef] = "disconnected",
                            !.disconnects[m1.scriptProcessorRef] = Bump(@),
                            !.scriptProcessorRef = NULL]
            ELSE m1
  IN  IF /\ m2.inputAudioContextRef # NULL
         /\ ContextStateAttr(m2, m2.inputAudioContextRef) # "closed"
      THEN closeContext(m2)
      ELSE closeSession(m2)

\* Lines 111-122, up to the await of getUserMedia.
startListening(m, isListening) ==
  IF isListening THEN m
  ELSE LET s == m.nStarts + 1
       IN  [setState(m, [isListening |-> TRUE, error |-> "",
                         currentTranscript |-> <<>>]) EXCEPT
              !.nStarts = s,
              !.startPc[s] = "gum",
              !.arrived = <<>>,
              !.sessionStarted = TRUE,
              !.parseCount = 0]

\* Lines 185-192.
resetVoiceState(m) ==
  LET m1 == setState(m, [voiceStep |-> "say_medication", medData |-> NoMedData,
                         currentTranscript |-> <<>>, error |-> "",
                         isLoading |-> FALSE])
  IN  stopListening([m1 EXCEPT !.sessionStarted = FALSE, !.arrived = <<>>])

\* Lines 194-200 (the manual form's own fields are not modelled).
resetManualState(m) == setState(m, [error |-> ""])

\* Lines 209-215, called with what the rendered button closed over.
handleToggleListen(m) ==
  IF m.rendered.isListening
  THEN stopListening(m)
  ELSE startListening(m, m.rendered.isListening)

\* Lines 217-230, in the modal: onClose() after the entry was handed over.
handleVoiceSubmit(m) ==
  LET md == m.rendered.medData
  IN  IF md.med # NoMed /\ md.quantity > 0
      THEN setState(m, [isOpen |-> FALSE])
      ELSE m

\* Lines 219-227, in App: the entry handleVoiceSubmit hands to addMedication.
onAddMedication(a, md) ==
  IF md.med # NoMed /\ md.quantity > 0
  THEN [a EXCEPT
          !.medications =
              addMedication(@, [id |-> NoId, name |-> md.med.name,
                                dosage |-> md.med.dosage, unit |-> md.med.unit,
                                quantity |-> md.quantity, timestamp |-> a.now,
                                transcript |-> md.transcript, source |-> "voice",
                                seq |-> a.nAdded + 1],
                            a.now),
          !.nAdded = @ + 1]
  ELSE a

\* ---- rendering ---------------------------------------------------------

\* One render and commit: the effects of lines 178-182 and 202-207 run, in
\* that order, when one of their dependencies differs from the last render.
Commit(m) ==
  LET prev == m.rendered
      cur == View(m)
      m0 == [m EXCEPT !.rendered = cur]
      parseDeps == <<cur.isListening, cur.currentTranscript, cur.userMedications>>
                     # <<prev.isListening, prev.currentTranscript, prev.userMedications>>
      m1 == IF parseDeps /\ ~cur.isListening /\ cur.currentTranscript # <<>>
            THEN handleParseMedication(m0, cur.currentTranscript, cur.userMedications)
            ELSE m0
      openDeps == <<cur.isOpen, cur.userMedications>>
                    # <<prev.isOpen, prev.userMedications>>
  IN  IF openDeps /\ ~cur.isOpen
      THEN resetManualState(resetVoiceState(m1))
      ELSE m1

\* Render until the rendered state is the state: the state an effect sets is
\* rendered again.
RECURSIVE CommitAll(_)
CommitAll(m) == IF Dirty(m) THEN CommitAll(Commit(m)) ELSE m

\* What the rendered tree offers to click.
VoiceTabShown(r) ==
  r.isOpen /\ r.userMedications.meds # <<>> /\ r.activeTab = "voice"

MicButtonEnabled(r) ==
  VoiceTabShown(r) /\ r.voiceStep = "say_medication" /\ ~r.isLoading

ConfirmShown(r) ==
  VoiceTabShown(r) /\ r.voiceStep = "confirm" /\ r.medData.med # NoMed

\* ---- initial state: the modal mounted closed ---------------------------

InitModal(closeSync) ==
  LET m == [closeSync |-> closeSync,
            isOpen |-> FALSE, activeTab |-> "voice",
            voiceStep |-> "say_medication", medData |-> NoMedData,
            currentTranscript |-> <<>>, isLoading |-> FALSE, error |-> "",
            isListening |-> FALSE,
            userMedications |-> [version |-> 0, meds |-> initialUserMedications],
            rendered |-> [isOpen |-> FALSE],
            sessionRef |-> NULL, inputAudioContextRef |-> NULL,
            scriptProcessorRef |-> NULL, streamRef |-> NULL,
            nStarts |-> 0,
            startPc |-> [s \in Sessions |-> "none"],
            stream |-> [s \in Sessions |-> "none"],
            proc |-> [s \in Sessions |-> "none"],
            ctx |-> [s \in Sessions |-> "none"],
            chan |-> [s \in Sessions |-> "none"],
            stopWait |-> {},
            parseTasks |-> <<>>,
            trackStops |-> [s \in Sessions |-> 0],
            disconnects |-> [s \in Sessions |-> 0],
            ctxCloses |-> [s \in Sessions |-> 0],
            chanCloses |-> [s \in Sessions |-> 0],
            nMsgs |-> 0,
            arrived |-> <<>>,
            sessionStarted |-> FALSE,
            parseCount |-> 0,
            stoppedEarly |-> {},
            micFailed |-> {},
            dismissed |-> {}]
  IN  [m EXCEPT !.rendered = View(m)]

\* The extraction request of a call that made none.
NotRequested == [kind |-> "none", parsed |-> JNull]

\* No geminiService operation has been called.
InitSvc ==
  [op |-> "none", c |-> NotRequested, o |-> NotRequested,
   userMedications |-> <<>>, ret |-> Fulfil(JNull, 0)]

Init ==
  /\ \E closeSync \in BOOLEAN : modal = InitModal(closeSync)
  /\ app = InitApp
  /\ svc = InitSvc

\* ---- what a run explores ------------------------------------------------
\* A run has up to MaxStarts sessions and neither transcript fragments nor
\* catalogue changes (but for one fragment after the last start has failed to
\* get the microphone), or one session and up to MaxEvents of those.  The
\* catalogue is edited through another modal, by which time a pending close()
\* of an audio context has settled.

Spent(m) == m.nMsgs + m.userMedications.version

MayStart(m) ==
  /\ m.nStarts < MaxStarts
  /\ m.nStarts = 0 \/ Spent(m) = 0

MayDeliver(m) ==
  /\ Spent(m) < MaxEvents
  /\ m.nStarts <= 1 \/ (Spent(m) = 0 /\ m.nStarts \in m.micFailed)

MayChangeCatalog(m) ==
  /\ Spent(m) < MaxEvents
  /\ m.userMedications.version < MaxCatVersion
  /\ m.nStarts <= 1
  /\ m.stopWait = {}

\* ---- user actions: the handler, then the render it causes --------------

\* App.tsx line 139: onLogMedication.
OpenModal ==
  /\ ~modal.rendered.isOpen
  /\ modal' = CommitAll(setState(modal, [isOpen |-> TRUE]))
  /\ UNCHANGED <<app, svc>>

\* App.tsx line 157: onClose, from the X or the "Got it" button.
CloseModal ==
  /\ modal.rendered.isOpen
  /\ modal' = CommitAll(
        [setState(modal, [isOpen |-> FALSE]) EXCEPT
           !.dismissed = IF modal.isListening THEN @ \cup {modal.nStarts} ELSE @])
  /\ UNCHANGED <<app, svc>>

HandleToggleListen ==
  /\ MicButtonEnabled(modal.rendered)
  /\ modal.rendered.isListening \/ MayStart(modal)
  /\ modal' = CommitAll(handleToggleListen(modal))
  /\ UNCHANGED <<app, svc>>

\* Line 298: Start Over.
StartOver ==
  /\ ConfirmShown(modal.rendered)
  /\ modal' = CommitAll(resetVoiceState(modal))
  /\ UNCHANGED <<app, svc>>

\* Line 301: Confirm & Save.
HandleVoiceSubmit ==
  /\ ConfirmShown(modal.rendered)
  /\ modal' = CommitAll(handleVoiceSubmit(modal))
  /\ app' = onAddMedication(app, modal.rendered.medData)
  /\ UNCHANGED svc

\* Line 363: the Manual Log tab.
TabManual ==
  /\ modal.rendered.isOpen /\ modal.rendered.userMedications.meds # <<>>
  /\ modal' = CommitAll(resetVoiceState(setState(modal, [activeTab |-> "manual"])))
  /\ UNCHANGED <<app, svc>>

\* Line 360: the Voice Log tab.
TabVoice ==
  /\ modal.rendered.isOpen /\ modal.rendered.userMedications.meds # <<>>
  /\ modal' = CommitAll(resetManualState(setState(modal, [activeTab |-> "voice"])))
  /\ UNCHANGED <<app, svc>>

\* The userMedications prop after App has set its state: every call of the
\* setter makes a new array, so the prop changes.
withUserMedications(m, list) ==
  setState(m, [userMedications |-> [version |-> m.userMedications.version + 1,
                                    meds |-> list]])

\* App.tsx lines 62-71, from the medications settings (used while this modal
\* is closed), and the render of the modal with the new prop.
SaveUserMedication(med) ==
  /\ ~modal.rendered.isOpen
  /\ MayChangeCatalog(modal)
  /\ app' = [app EXCEPT
               !.userMedications = saveUserMedication(@, med, app.now)]
  /\ modal' = CommitAll(withUserMedications(modal, app'.userMedications))
  /\ UNCHANGED svc

\* App.tsx lines 73-75.
DeleteUserMedication(id) ==
  /\ ~modal.rendered.isOpen
  /\ MayChangeCatalog(modal)
  /\ app' = [app EXCEPT !.userMedications = deleteUserMedication(@, id)]
  /\ modal' = CommitAll(withUserMedications(modal, app'.userMedications))
  /\ UNCHANGED svc

\* A render React scheduled for state set outside a user event.
Render ==
  /\ Dirty(modal)
  /\ modal' = CommitAll(modal)
  /\ UNCHANGED <<app, svc>>

\* ---- the browser and the SDK call back ---------------------------------

\* Lines 122-125 and 163: getUserMedia resolves, live.connect is called.
GetUserMediaResolve(s) ==
  /\ modal.startPc[s] = "gum"
  /\ modal' = [modal EXCEPT !.stream[s] = "live", !.streamRef = s,
                             !.chan[s] = "connecting", !.startPc[s] = "connect"]
  /\ UNCHANGED <<app, svc>>

\* Lines 165-169 after a rejection of getUserMedia.
GetUserMediaReject(s) ==
  /\ modal.startPc[s] = "gum"
  /\ modal' = [setState(modal, [error |-> "mic", isListening |-> FALSE])
                 EXCEPT !.startPc[s] = "done", !.micFailed = @ \cup {s}]
  /\ UNCHANGED <<app, svc>>

\* Lines 165-169 after a rejection of live.connect.
ConnectReject(s) ==
  /\ modal.startPc[s] = "connect" /\ modal.chan[s] = "connecting"
  /\ modal' = [setState(modal, [error |-> "mic", isListening |-> FALSE])
                 EXCEPT !.chan[s] = "failed", !.startPc[s] = "done"]
  /\ UNCHANGED <<app, svc>>

\* Lines 128-143 and 164: onopen, then the connect promise resolves.
OnOpen(s) ==
  /\ modal.startPc[s] = "connect" /\ modal.chan[s] = "connecting"
  /\ modal' = [modal EXCEPT !.chan[s] = "open",
                             !.ctx[s] = "running", !.inputAudioContextRef = s,
                             !.proc[s] = "connected", !.scriptProcessorRef = s,
                             !.sessionRef = s, !.startPc[s] = "done"]
  /\ UNCHANGED <<app, svc>>

\* onmessage with the fragment stored in place of the transcript.
onmessage_replace(m, text) ==
  IF text # NoTranscription
  THEN [setState(m, [currentTranscript |-> <<text>>])
          EXCEPT !.arrived = IF m.sessionStarted THEN Append(@, text) ELSE @]
  ELSE m

\* Lines 144-149.
onmessage(m, text) ==
  IF text # NoTranscription
  THEN [setState(m, [currentTranscript |-> Append(m.currentTranscript, text)])
          EXCEPT !.arrived = IF m.sessionStarted THEN Append(@, text) ELSE @]
  ELSE m

OnMessage(s, text) ==
  /\ modal.chan[s] = "open" /\ MayDeliver(modal)
  /\ modal' = [onmessage(modal, text) EXCEPT
                 !.nMsgs = IF text # NoTranscription THEN @ + 1 ELSE @]
  /\ UNCHANGED <<app, svc>>

\* Lines 150-154.
OnError(s) ==
  /\ modal.chan[s] = "open"
  /\ modal' = stopListening(
        [setState(modal, [error |-> "realtime"]) EXCEPT !.chan[s] = "errored"])
  /\ UNCHANGED <<app, svc>>

\* Lines 155-157: the peer closes the channel.
OnClose(s) ==
  /\ modal.chan[s] = "open"
  /\ modal' = [modal EXCEPT !.chan[s] = "peer_closed"]
  /\ UNCHANGED <<app, svc>>

\* Lines 134-140: an audioprocess event, also one queued before the
\* processor was disconnected and delivered while the context closes.
\* The send changes nothing the component holds.
FrameDelivered(m, s) ==
  \/ m.proc[s] = "connected" /\ m.ctx[s] = "running"
  \/ m.proc[s] = "disconnected" /\ m.ctx[s] = "closing"

OnAudioProcess(s) ==
  /\ FrameDelivered(modal, s)
  /\ UNCHANGED <<modal, app, svc>>

\* Line 101: the promise of close() resolves.
ContextClosed(c) ==
  /\ c \in modal.stopWait
  /\ modal' = afterClose([modal EXCEPT !.ctx[c] = "closed", !.stopWait = @ \ {c}])
  /\ UNCHANGED <<app, svc>>

\* Line 75: parseMedicationFromText settles.
ParseReturn(i, resp) ==
  /\ i \in 1..Len(modal.parseTasks)
  /\ LET t == modal.parseTasks[i]
         rest == [j \in 1..(Len(modal.parseTasks) - 1) |->
                    IF j < i THEN modal.parseTasks[j] ELSE modal.parseTasks[j + 1]]
         ret == parseMedicationFromText(t.cat.meds, resp)
         m == [modal EXCEPT !.parseTasks = rest]
     IN  modal' = IF ret.settled = "fulfilled"
                  THEN parseContinuation(m, t.text, ret.value)
                  ELSE parseThrown(m)
  /\ UNCHANGED <<app, svc>>

Next ==
  \/ OpenModal
  \/ CloseModal
  \/ HandleToggleListen
  \/ StartOver
  \/ HandleVoiceSubmit
  \/ TabManual
  \/ TabVoice
  \/ \E med \in {EditedMedication, NewMedication} : SaveUserMedication(med)
  \/ \E id \in {"um1"} : DeleteUserMedication(id)
  \/ Render
  \/ \E s \in Sessions : GetUserMediaResolve(s)
  \/ \E s \in Sessions : GetUserMediaReject(s)
  \/ \E s \in Sessions : ConnectReject(s)
  \/ \E s \in Sessions : OnOpen(s)
  \/ \E s \in Sessions, text \in Fragments \cup {NoTranscription} : OnMessage(s, text)
  \/ \E s \in Sessions : OnError(s)
  \/ \E s \in Sessions : OnClose(s)
  \/ \E s \in Sessions : OnAudioProcess(s)
  \/ \E c \in Sessions : ContextClosed(c)
  \/ \E i \in 1..(2 * MaxStarts + MaxEvents), resp \in Responses :
        ParseReturn(i, resp)

Spec == Init /\ [][Next]_vars

\* Some pending parseMedicationFromText call settles.
ExtractionSettles ==
  \E i \in 1..(2 * MaxStarts + MaxEvents), resp \in Responses :
    ParseReturn(i, resp)

\* The runs of one session while the catalogue stays as it is.
HandleToggleListenOnce ==
  /\ modal.nStarts = 0 \/ modal.rendered.isListening
  /\ HandleToggleListen

NextLive ==
  \/ OpenModal
  \/ CloseModal
  \/ HandleToggleListenOnce
  \/ StartOver
  \/ HandleVoiceSubmit
  \/ TabManual
  \/ TabVoice
  \/ Render
  \/ \E s \in Sessions : GetUserMediaResolve(s)
  \/ \E s \in Sessions : GetUserMediaReject(s)
  \/ \E s \in Sessions : ConnectReject(s)
  \/ \E s \in Sessions : OnOpen(s)
  \/ \E s \in Sessions, text \in Fragments \cup {NoTranscription} : OnMessage(s, text)
  \/ \E s \in Sessions : OnError(s)
  \/ \E s \in Sessions : OnClose(s)
  \/ \E s \in Sessions : OnAudioProcess(s)
  \/ \E c \in Sessions : ContextClosed(c)
  \/ ExtractionSettles

\* Every call of the backend returns or fails.
SpecLive == Init /\ [][NextLive]_vars /\ WF_vars(ExtractionSettles)

\* ---- App: readings are added, the catalogue is edited --------------------

\* The instants a caller stamps a reading with: the instant of a seeded
\* entry, the page load, and one after it.
Times == {PageLoad - 6, PageLoad, PageLoad + 1}

MayAdd(a) == a.nAdded < MaxAdds

\* What a log modal hands over: a reading without id.
NewReading(a, timestamp) ==
  [id |-> NoId, timestamp |-> timestamp, value |-> 1, seq |-> a.nAdded + 1]

\* Lines 99, 145, 152: onAddGlucose of the history page, onAddReading of the
\* glucose and meal modals.
AddGlucoseReading(timestamp) ==
  /\ MayAdd(app)
  /\ app' = [app EXCEPT
               !.glucoseReadings =
                   addGlucoseReading(@, NewReading(app, timestamp), app.now),
               !.nAdded = @ + 1]
  /\ UNCHANGED <<modal, svc>>

\* Lines 100, 151: onAddMeal of the history page and of the meal modal.
AddMeal(timestamp) ==
  /\ MayAdd(app)
  /\ app' = [app EXCEPT
               !.meals = addMeal(@, NewReading(app, timestamp), app.now),
               !.nAdded = @ + 1]
  /\ UNCHANGED <<modal, svc>>

\* Lines 101, 158: onAddMedication, for an entry of the catalogue as the
\* medication modal's manual form submits it.
AddMedication(timestamp, i) ==
  /\ MayAdd(app)
  /\ i \in 1..Len(app.userMedications)
  /\ LET um == app.userMedications[i]
     IN  app' = [app EXCEPT
                   !.medications =
                       addMedication(@, [id |-> NoId, name |-> um.name,
                                         dosage |-> um.dosage, unit |-> um.unit,
                                         quantity |-> 1, timestamp |-> timestamp,
                                         transcript |-> <<>>, source |-> "manual",
                                         seq |-> app.nAdded + 1],
                                     app.now),
                   !.nAdded = @ + 1]
  /\ UNCHANGED <<modal, svc>>

\* Lines 102, 164: onAddWeight of the history page, onAddReading of the
\* weight modal.
AddWeightReading(timestamp) ==
  /\ MayAdd(app)
  /\ app' = [app EXCEPT
               !.weightReadings =
                   addWeightReading(@, NewReading(app, timestamp), app.now),
               !.nAdded = @ + 1]
  /\ UNCHANGED <<modal, svc>>

\* Lines 103, 169: onAddBloodPressure of the history page, onAddReading of
\* the blood pressure modal.
AddBloodPressureReading(timestamp) ==
  /\ MayAdd(app)
  /\ app' = [app EXCEPT
               !.bloodPressureReadings =
                   addBloodPressureReading(@, NewReading(app, timestamp), app.now),
               !.nAdded = @ + 1]
  /\ UNCHANGED <<modal, svc>>

\* Date.now() reads a later instant than it did.
Tick ==
  /\ app.now < PageLoad + MaxTicks
  /\ app' = [app EXCEPT !.now = @ + 1]
  /\ UNCHANGED <<modal, svc>>

NextApp ==
  \/ \E timestamp \in Times : AddGlucoseReading(timestamp)
  \/ \E timestamp \in Times : AddMeal(timestamp)
  \/ \E timestamp \in Times, i \in 1..(Len(initialUserMedications) + MaxCatVersion) :
        AddMedication(timestamp, i)
  \/ \E timestamp \in Times : AddWeightReading(timestamp)
  \/ \E timestamp \in Times : AddBloodPressureReading(timestamp)
  \/ \E med \in {EditedMedication, NewMedication, StaleMedication} :
        SaveUserMedication(med)
  \/ \E id \in {"um1", "um9"} : DeleteUserMedication(id)
  \/ Tick

SpecApp == Init /\ [][NextApp]_vars

\* ---- geminiService called with every backend answer ---------------------

\* Answers to a classify prompt whose schema has the one boolean field k.
ClassifyOutcomes(k) ==
  {Rejected, Unparsable, Json(JNull), Json(JNum(1))}
    \cup {Json(JObj(k :> v)) :
             v \in {JBool(TRUE), JBool(FALSE), Undefined, JStr("yes")}}

GlucoseOutcomes ==
  {Rejected, Unparsable, Json(JNull)}
    \cup {Json(JObj([value |-> v, unit |-> u, context |-> c])) :
             v \in {JNum(5), JStr("5"), Undefined},
             u \in {JStr("mmol/L"), Undefined},
             c \in {JStr("fasting"), JNum(1), Undefined}}

WeightOutcomes ==
  {Rejected, Unparsable, Json(JNull)}
    \cup {Json(JObj([value |-> v, unit |-> u])) :
             v \in {JNum(70), JStr("70"), Undefined},
             u \in {JStr("kg"), JStr("lbs"), JStr("stone"), JNum(1), Undefined}}

BloodPressureOutcomes ==
  {Rejected, Unparsable, Json(JNull)}
    \cup {Json(JObj([systolic |-> x, diastolic |-> y, pulse |-> z])) :
             x \in {JNum(120), Undefined},
             y \in {JNum(80), JStr("80")},
             z \in {JNum(65), JNull, Undefined}}

Nutrition(c, cal, p, f) ==
  JObj([carbohydrates |-> c, calories |-> cal, protein |-> p, fat |-> f])

FoodItem(name, nutrition) == JObj([name |-> name, nutrition |-> nutrition])

GoodNutrition == Nutrition(JNum(45), JNum(300), JNum(8), JNum(5))

NutritionValues ==
  {Undefined, JNull, JStr("lots"), GoodNutrition,
   Nutrition(JNum(45), JNum(300), JNum(8), Undefined),
   Nutrition(JStr("45g"), JNum(300), JNum(8), JNum(5))}

FoodItemsValues ==
  {Undefined, JStr("rice"), JArr(<<>>)}
    \cup {JArr(<<FoodItem(nm, nu)>>) :
             nm \in {JStr("Oatmeal"), Undefined},
             nu \in {GoodNutrition, Undefined,
                     Nutrition(JNum(45), Undefined, JNum(8), JNum(5))}}

MealOutcomes ==
  {Rejected, Unparsable, Json(JNull)}
    \cup {Json(JObj([foodItems |-> fi, totalNutrition |-> tn])) :
             fi \in FoodItemsValues, tn \in NutritionValues}

MedicationOutcomes ==
  {Rejected, Unparsable, Json(JNull)}
    \cup {Json(JObj([name |-> nm, quantity |-> q])) :
             nm \in {JStr("Metformin"), JStr("METFORMIN"), JStr("Aspirin"),
                     JStr("Metformin XR"), JNum(1), Undefined},
             q \in {JNum(2), JNum(0), JNum(-1), JStr("2"), Undefined}}

\* Catalogues handed to parseMedicationFromText: none, the seeded one, and
\* one with two names that differ in case only.
Catalogs ==
  {<<>>, initialUserMedications,
   << [id |-> "um7", name |-> "metformin", dosage |-> 850, unit |-> "mg"],
      [id |-> "um1", name |-> "Metformin", dosage |-> 500, unit |-> "mg"] >>}

\* The record of a call: the answers the backend gave to the requests the
\* call made, and what the call's promise settled to.
Called(op, c, o, userMedications, ret) ==
  svc' = [op |-> op, c |-> c,
          o |-> IF ret.requests = 0 \/ (c # NotRequested /\ ret.requests = 1)
                THEN NotRequested ELSE o,
          userMedications |-> userMedications, ret |-> ret]

IsImageOfGlucoseMeter ==
  /\ \E c \in ClassifyOutcomes("isMeter") :
        Called("isImageOfGlucoseMeter", c, NotRequested, <<>>, isImageOfGlucoseMeter(c))
  /\ UNCHANGED <<modal, app>>

IsImageOfFood ==
  /\ \E c \in ClassifyOutcomes("isFood") :
        Called("isImageOfFood", c, NotRequested, <<>>, isImageOfFood(c))
  /\ UNCHANGED <<modal, app>>

IsImageOfWeightScale ==
  /\ \E c \in ClassifyOutcomes("isScale") :
        Called("isImageOfWeightScale", c, NotRequested, <<>>, isImageOfWeightScale(c))
  /\ UNCHANGED <<modal, app>>

IsImageOfBloodPressureMonitor ==
  /\ \E c \in ClassifyOutcomes("isMonitor") :
        Called("isImageOfBloodPressureMonitor", c, NotRequested, <<>>, isImageOfBloodPressureMonitor(c))
  /\ UNCHANGED <<modal, app>>

ParseGlucoseReadingFromText ==
  /\ \E o \in GlucoseOutcomes :
        Called("parseGlucoseReadingFromText", NotRequested, o, <<>>, parseGlucoseReadingFromText(o))
  /\ UNCHANGED <<modal, app>>

ParseMealFromText ==
  /\ \E o \in MealOutcomes :
        Called("parseMealFromText", NotRequested, o, <<>>, parseMealFromText(o))
  /\ UNCHANGED <<modal, app>>

ParseWeightFromText ==
  /\ \E o \in WeightOutcomes :
        Called("parseWeightFromText", NotRequested, o, <<>>, parseWeightFromText(o))
  /\ UNCHANGED <<modal, app>>

ParseBloodPressureFromText ==
  /\ \E o \in BloodPressureOutcomes :
        Called("parseBloodPressureFromText", NotRequested, o, <<>>, parseBloodPressureFromText(o))
  /\ UNCHANGED <<modal, app>>

ParseGlucoseReadingFromImage ==
  /\ \E c \in ClassifyOutcomes("isMeter"), o \in GlucoseOutcomes :
        Called("parseGlucoseReadingFromImage", c, o, <<>>, parseGlucoseReadingFromImage(c, o))
  /\ UNCHANGED <<modal, app>>

AnalyzeMealPhoto ==
  /\ \E c \in ClassifyOutcomes("isFood"), o \in MealOutcomes :
        Called("analyzeMealPhoto", c, o, <<>>, analyzeMealPhoto(c, o))
  /\ UNCHANGED <<modal, app>>

ParseWeightFromImage ==
  /\ \E c \in ClassifyOutcomes("isScale"), o \in WeightOutcomes :
        Called("parseWeightFromImage", c, o, <<>>, parseWeightFromImage(c, o))
  /\ UNCHANGED <<modal, app>>

ParseBloodPressureFromImage ==
  /\ \E c \in ClassifyOutcomes("isMonitor"), o \in BloodPressureOutcomes :
        Called("parseBloodPressureFromImage", c, o, <<>>, parseBloodPressureFromImage(c, o))
  /\ UNCHANGED <<modal, app>>

ParseMedicationFromText ==
  /\ \E userMedications \in Catalogs, o \in MedicationOutcomes :
        Called("parseMedicationFromText", NotRequested, o, userMedications,
               parseMedicationFromText(userMedications, o))
  /\ UNCHANGED <<modal, app>>

NextService ==
  \/ IsImageOfGlucoseMeter
  \/ IsImageOfFood
  \/ IsImageOfWeightScale
  \/ IsImageOfBloodPressureMonitor
  \/ ParseGlucoseReadingFromText
  \/ ParseMealFromText
  \/ ParseWeightFromText
  \/ ParseBloodPressureFromText
  \/ ParseGlucoseReadingFromImage
  \/ AnalyzeMealPhoto
  \/ ParseWeightFromImage
  \/ ParseBloodPressureFromImage
  \/ ParseMedicationFromText

SpecService == Init /\ [][NextService]_vars

\* ---- properties --------------------------------------------------------

\* C1: once the session is not listening and every pending start and stop
\* step has finished, no microphone stream, audio context or channel of any
\* session is still live.
C1_ReleasedOnEveryExit ==
  (~modal.isListening /\ Settled(modal))
    => \A s \in Sessions : ~Unreleased(modal, s)

\* C2: a session whose start was still in progress when stopListening ran
\* holds, once everything pending has settled, no microphone stream and no
\* channel, and the modal is not listening.
C2_StopDuringStart ==
  \A s \in modal.stoppedEarly :
    Settled(modal) =>
      /\ ~StreamLive(modal, s)
      /\ ~ChannelLive(modal, s)
      /\ s = modal.nStarts => ~modal.isListening

ReleasedOnce(m, s) ==
  /\ m.stream[s] # "none" => m.stream[s] = "stopped" /\ m.trackStops[s] = 1
  /\ m.proc[s] # "none" => m.proc[s] = "disconnected" /\ m.disconnects[s] = 1
  /\ m.ctx[s] # "none" => m.ctx[s] = "closed" /\ m.ctxCloses[s] = 1
  /\ m.chan[s] \in {"open", "closed"} => m.chan[s] = "closed" /\ m.chanCloses[s] = 1

\* C3: a session that was listening when the modal was dismissed has, once
\* everything pending has settled, each resource it acquired released, and
\* released exactly once.
C3_DismissReleasesOnce ==
  \A s \in modal.dismissed : Settled(modal) => ReleasedOnce(modal, s)

\* C4: no resource is released twice: the tracks of a stream are stopped, a
\* processor is disconnected, a context is closed and a channel is closed at
\* most once each.
C4_NoDoubleRelease ==
  \A s \in Sessions :
    /\ modal.trackStops[s] <= 1
    /\ modal.disconnects[s] <= 1
    /\ modal.ctxCloses[s] <= 1
    /\ modal.chanCloses[s] <= 1

\* C5: a channel that stopListening has closed belongs to a session whose
\* microphone tracks are stopped and whose processing graph is disconnected
\* and closed or closing.
C5_ChannelClosedLast ==
  \A s \in Sessions :
    modal.chanCloses[s] > 0 =>
      /\ ~StreamLive(modal, s)
      /\ modal.proc[s] # "connected"
      /\ modal.ctx[s] # "running"

\* C6: whenever an audio frame is handed to sendRealtimeInput, the session is
\* listening and stopListening has not closed the frame's channel.
C6_FramesOnlyWhileListening ==
  \A s \in Sessions :
    FrameDelivered(modal, s) => modal.isListening /\ modal.chanCloses[s] = 0

\* C7: while a session exists (from startListening until the voice state is
\* reset), the accumulated transcript is the sequence of the fragments that
\* arrived since startListening, in arrival order, each once.
C7_TranscriptIsArrivals ==
  modal.sessionStarted => modal.currentTranscript = modal.arrived

C7_Witness ==
  /\ modal.sessionStarted
  /\ Len(modal.arrived) = 2
  /\ modal.arrived[1] # modal.arrived[2]
  /\ modal.currentTranscript = modal.arrived

\* C8: the transcript of one session is handed to parseMedicationFromText at
\* most once.
C8_ExtractOnce == modal.parseCount <= 1

\* C9: a step that starts parseMedicationFromText leaves no microphone
\* stream, audio context or channel of the session unreleased.
C9_ExtractAfterDrain ==
  [][Len(modal'.parseTasks) > Len(modal.parseTasks)
       => (modal'.nStarts > 0 => ~Unreleased(modal', modal'.nStarts))]_vars

\* C10: at most one microphone stream is live and at most one channel is
\* open at any time.
C10_OneSession ==
  /\ Cardinality({s \in Sessions : StreamLive(modal, s)}) <= 1
  /\ Cardinality({s \in Sessions : modal.chan[s] = "open"}) <= 1

\* The last startListening failed to get the microphone, and the voice state
\* has not been reset since.
FailedStart(m) == m.sessionStarted /\ m.nStarts \in m.micFailed

\* C11: the step in which getUserMedia rejects leaves the listening flag
\* false and a non-empty error; and for as long as the failed start is the
\* last one, it has no stream and no channel, the modal is not listening, the
\* transcript is empty and parseMedicationFromText has not been called.
C11_MicFailure ==
  [][/\ \A s \in modal'.micFailed \ modal.micFailed :
          ~modal'.isListening /\ modal'.error # ""
     /\ FailedStart(modal') =>
          /\ modal'.stream[modal'.nStarts] = "none"
          /\ modal'.chan[modal'.nStarts] = "none"
          /\ ~modal'.isListening
          /\ modal'.currentTranscript = <<>>
          /\ modal'.parseCount = 0]_vars

\* ---- properties of geminiService ---------------------------------------

ClassifyOps ==
  {"isImageOfGlucoseMeter", "isImageOfFood", "isImageOfWeightScale",
   "isImageOfBloodPressureMonitor"}

ImageOps ==
  {"parseGlucoseReadingFromImage", "analyzeMealPhoto", "parseWeightFromImage",
   "parseBloodPressureFromImage"}

TextOps ==
  {"parseGlucoseReadingFromText", "parseMealFromText", "parseWeightFromText",
   "parseBloodPressureFromText"}

\* The schema of each reading kind: what a conforming answer is.
ConformsGlucose(v) ==
  /\ v.t = "object"
  /\ Get(v, "value").t = "number"
  /\ Get(v, "unit").t = "string"
  /\ Get(v, "context").t = "string"

ConformsWeight(v) ==
  /\ v.t = "object"
  /\ Get(v, "value").t = "number"
  /\ Get(v, "unit") \in {JStr("kg"), JStr("lbs")}

ConformsBloodPressure(v) ==
  /\ v.t = "object"
  /\ \A k \in {"systolic", "diastolic", "pulse"} : Get(v, k).t = "number"

ConformsNutrition(v) ==
  /\ v.t = "object"
  /\ \A k \in {"carbohydrates", "calories", "protein", "fat"} :
        Get(v, k).t = "number"

ConformsFoodItem(v) ==
  /\ v.t = "object"
  /\ Get(v, "name").t = "string"
  /\ ConformsNutrition(Get(v, "nutrition"))

ConformsMeal(v) ==
  /\ v.t = "object"
  /\ Get(v, "foodItems").t = "array"
  /\ \A i \in 1..Len(Get(v, "foodItems").items) :
        ConformsFoodItem(Get(v, "foodItems").items[i])
  /\ ConformsNutrition(Get(v, "totalNutrition"))

Conforms(op, v) ==
  CASE op \in {"parseGlucoseReadingFromText", "parseGlucoseReadingFromImage"}
         -> ConformsGlucose(v)
    [] op \in {"parseMealFromText", "analyzeMealPhoto"} -> ConformsMeal(v)
    [] op \in {"parseWeightFromText", "parseWeightFromImage"} -> ConformsWeight(v)
    [] op \in {"parseBloodPressureFromText", "parseBloodPressureFromImage"}
         -> ConformsBloodPressure(v)
    [] OTHER -> FALSE

\* The extraction request was answered with a conforming value.
ConformingAnswer(c) == c.o.kind = "json" /\ Conforms(c.op, c.o.parsed)

\* What the classify operation of an extract-from-image call gave back.
Classified(c) ==
  CASE c.op = "parseGlucoseReadingFromImage" -> isImageOfGlucoseMeter(c.c).value
    [] c.op = "analyzeMealPhoto" -> isImageOfFood(c.c).value
    [] c.op = "parseWeightFromImage" -> isImageOfWeightScale(c.c).value
    [] c.op = "parseBloodPressureFromImage"
         -> isImageOfBloodPressureMonitor(c.c).value
    [] OTHER -> Undefined

WrongImageErrors ==
  {"Image does not appear to contain a glucose meter.",
   "Image does not appear to contain food.",
   "Image does not appear to contain a weight scale.",
   "Image does not appear to contain a blood pressure monitor."}

\* C12: a classify call is fulfilled with exactly true or false, and with
\* false when the request failed or its text was not JSON.
C12_ClassifyIsBoolean ==
  svc.op \in ClassifyOps =>
    /\ svc.ret.settled = "fulfilled"
    /\ svc.ret.value \in {JBool(TRUE), JBool(FALSE)}
    /\ svc.c.kind # "json" => svc.ret.value = JBool(FALSE)

\* C13: an extract call that is fulfilled gives back the answer when the
\* answer conforms to the schema of the reading kind, nested fields of food
\* items and totalNutrition included, and null for every other answer.
C13_ExtractSchema ==
  (svc.op \in TextOps \cup ImageOps /\ svc.ret.settled = "fulfilled") =>
    IF ConformingAnswer(svc)
    THEN svc.ret.value = svc.o.parsed
    ELSE svc.ret.value = JNull

\* C14: an extract-from-image call whose classify gave false is rejected with
\* the wrong-image error after the one classify request; one whose classify
\* gave true is fulfilled, with null when the extraction answer is unreadable
\* or does not conform.
C14_ImageGate ==
  svc.op \in ImageOps =>
    /\ Classified(svc) = JBool(FALSE) =>
          /\ svc.ret.settled = "rejected"
          /\ svc.ret.error \in WrongImageErrors
          /\ svc.ret.requests = 1
    /\ Classified(svc) = JBool(TRUE) =>
          /\ svc.ret.settled = "fulfilled"
          /\ svc.ret.requests = 2
          /\ ~ConformingAnswer(svc) => svc.ret.value = JNull

\* The backend answered the classify request, and answered no.
ClassifiedAsOther(c) ==
  /\ c.c.kind = "json"
  /\ c.c.parsed.t = "object"
  /\ \E k \in DOMAIN c.c.parsed.f : c.c.parsed.f[k] = JBool(FALSE)

\* C15: a call one of whose requests failed is fulfilled with null or false;
\* and a call is rejected only with the wrong-image error and only when the
\* backend classified the image as not of the expected kind.
C15_FailuresCaught ==
  svc.op # "none" =>
    /\ (svc.c = Rejected \/ svc.o = Rejected) =>
          /\ svc.ret.settled = "fulfilled"
          /\ svc.ret.value \in {JNull, JBool(FALSE), NoResult}
    /\ svc.ret.settled = "rejected" =>
          /\ svc.op \in ImageOps
          /\ svc.ret.error \in WrongImageErrors
          /\ ClassifiedAsOther(svc)

\* The entries of the catalogue of a call whose name is, but for case, the
\* name the backend returned.
NameMatches(c) ==
  {i \in 1..Len(c.userMedications) :
     toLowerCase(c.userMedications[i].name)
       = toLowerCase(Get(c.o.parsed, "name").s)}

ValidMedicationAnswer(c) ==
  /\ c.o.kind = "json"
  /\ c.o.parsed.t = "object"
  /\ Get(c.o.parsed, "name").t = "string"
  /\ Get(c.o.parsed, "quantity").t = "number"
  /\ Get(c.o.parsed, "quantity").n > 0
  /\ NameMatches(c) # {}

\* C16: parseMedicationFromText gives a result exactly when the backend
\* returned a string that is, but for case, the name of an entry of the
\* catalogue passed in and a number greater than 0; the result then carries
\* such an entry of the catalogue and that number; otherwise the result is
\* null, and with an empty catalogue no request is made.
C16_MedicationMatch ==
  svc.op = "parseMedicationFromText" =>
    /\ svc.ret.settled = "fulfilled"
    /\ svc.ret.value # NoResult <=> ValidMedicationAnswer(svc)
    /\ ValidMedicationAnswer(svc) =>
          /\ \E i \in NameMatches(svc) :
                svc.ret.value.matchedMed = svc.userMedications[i]
          /\ svc.ret.value.quantity = Get(svc.o.parsed, "quantity").n
    /\ svc.userMedications = <<>> => svc.ret.requests = 0

\* A call matched an entry whose name is written in another case.
C16_Witness ==
  /\ svc.op = "parseMedicationFromText"
  /\ svc.ret.value # NoResult
  /\ svc.ret.value.matchedMed.name # Get(svc.o.parsed, "name").s
  /\ svc.ret.value.quantity = 2

\* ---- Properties of the reading log and the catalogue ---------------------

\* C17: the combined activity log is ordered strictly descending by
\* timestamp: every entry is later than the entry after it.
C17_StrictlyDescending ==
  LET logs == combinedLogs(app)
  IN  \A i \in 1..(Len(logs) - 1) : logs[i].timestamp > logs[i + 1].timestamp

\* C18: entries of the combined log with equal timestamps stand in the order
\* they were inserted (a seeded entry before any added one).
C18_TiesInInsertionOrder ==
  LET logs == combinedLogs(app)
  IN  \A i, j \in 1..Len(logs) :
        (i < j /\ logs[i].timestamp = logs[j].timestamp)
          => logs[i].seq <= logs[j].seq

Lists == {"glucoseReadings", "meals", "medications", "weightReadings",
          "bloodPressureReadings"}

Entries(list) == {list[i] : i \in 1..Len(list)}

\* Every entry of the list before the step is an entry of it after the step.
Kept(l) == Entries(app[l]) \subseteq Entries(app'[l])

Grown(l) == Len(app'[l]) = Len(app[l]) + 1

\* C19: readings are append-only. A step keeps every logged entry as it
\* was; an add grows its own list by one entry and no other list; a change
\* of the catalogue changes no list.
C19_AppendOnly ==
  [][ /\ \A l \in Lists : Kept(l) /\ (Grown(l) \/ Len(app'[l]) = Len(app[l]))
      /\ \A l, k \in Lists : (Grown(l) /\ Grown(k)) => l = k
      /\ app'.nAdded # app.nAdded
           => /\ \E l \in Lists : Grown(l)
              /\ app'.userMedications = app.userMedications
      /\ app'.userMedications # app.userMedications
           => \A l \in Lists : app'[l] = app[l] ]_vars

\* A dose of Metformin 500 mg was logged from the catalogue, and the
\* catalogue no longer has that entry (edited or deleted).
C19_Witness ==
  /\ \E m \in Entries(app.medications) :
        m.seq > 0 /\ m.name = "Metformin" /\ m.dosage = 500
  /\ \A um \in Entries(app.userMedications) :
        ~(um.name = "Metformin" /\ um.dosage = 500)

Ids(list) == {list[i].id : i \in 1..Len(list)}

SameMedication(a, b) ==
  a.name = b.name /\ a.dosage = b.dosage /\ a.unit = b.unit

\* What the catalogue is after a save of med: with the id of an entry, that
\* one entry has med's fields and every other entry is as it was; otherwise
\* one entry with med's fields and an id no entry had is added at the end.
Saved(prev, next, med) ==
  IF med.id \in Ids(prev)
    THEN /\ Len(next) = Len(prev)
         /\ \E i \in 1..Len(prev) :
              /\ prev[i].id = med.id
              /\ next[i] = med
              /\ \A j \in 1..Len(prev) : j # i => next[j] = prev[j]
    ELSE /\ Len(next) = Len(prev) + 1
         /\ SubSeq(next, 1, Len(prev)) = prev
         /\ next[Len(next)].id \notin Ids(prev) \cup {NoId}
         /\ SameMedication(next[Len(next)], med)

\* What the catalogue is after a delete of id: without the one entry of
\* that id, or as it was when no entry has it.
Deleted(prev, next, id) ==
  IF id \in Ids(prev)
    THEN \E i \in 1..Len(prev) :
           /\ prev[i].id = id
           /\ next = SubSeq(prev, 1, i - 1) \o SubSeq(prev, i + 1, Len(prev))
    ELSE next = prev

\* C20: the catalogue is keyed by id. Every call of save or delete (each
\* one hands the modal a new userMedications prop) leaves the catalogue as
\* a save of some medication or a delete of some id keyed by id would.
C20_KeyedById ==
  [][ modal'.userMedications.version # modal.userMedications.version
        => LET prev == app.userMedications
               next == app'.userMedications
           IN  \/ \E med \in {EditedMedication, NewMedication, StaleMedication} :
                    Saved(prev, next, med)
               \/ \E id \in {"um1", "um9"} : Deleted(prev, next, id) ]_vars

\* ---- Properties of the voice step ----------------------------------------

\* The step is an onerror of a channel.
ChannelErrored ==
  \E s \in Sessions : modal.chan[s] # "errored" /\ modal'.chan[s] = "errored"

\* The step calls handleParseMedication and does not reset the voice state.
ExtractionStarted ==
  /\ Len(modal'.parseTasks) > Len(modal.parseTasks)
  /\ modal'.sessionStarted

\* C21: an onerror leaves the session not listening with the connection
\* error set, and a step that starts the automatic extraction while that
\* error is set leaves it set.
C21_ErrorKept ==
  [][ /\ ChannelErrored
        => ~modal'.isListening /\ modal'.error = "realtime"
      /\ (modal.error = "realtime" /\ ExtractionStarted)
        => modal'.error = "realtime" ]_vars

\* No two entries of the list have the same id.
UniqueIds(list) ==
  \A i, j \in 1..Len(list) : list[i].id = list[j].id => i = j

\* C22: generated ids are unique within their collection: no two readings
\* of one kind and no two entries of the catalogue share an id.
C22_UniqueIds ==
  /\ \A l \in Lists : UniqueIds(app[l])
  /\ UniqueIds(app.userMedications)

\* The step is the return of a parseMedicationFromText call.
ExtractionReturned == Len(modal'.parseTasks) < Len(modal.parseTasks)

\* The return was a result: the step stages it.
ExtractionSucceeded == ExtractionReturned /\ modal'.medData # modal.medData

\* The return was a failure: the step sets the error text.
ExtractionFailed == ExtractionReturned /\ modal'.error # modal.error

Staged(md) == md.med # NoMed /\ md.quantity > 0

\* The step appends a medication to the log.
MedicationLogged == Len(app'.medications) > Len(app.medications)

\* C23: a medication is logged only from the confirm step that is shown,
\* with a staged medication of quantity > 0; a return of the extraction
\* logs nothing; a result is staged and the step becomes 'confirm'; after a
\* failure the step is 'say_medication', nothing is staged and an error is
\* set.
C23_ConfirmOnly ==
  [][ /\ MedicationLogged
        => /\ ConfirmShown(modal.rendered)
           /\ Staged(modal.rendered.medData)
      /\ ExtractionReturned => app' = app
      /\ ExtractionSucceeded
        => modal'.voiceStep = "confirm" /\ Staged(modal'.medData)
      /\ ExtractionFailed
        => /\ modal'.voiceStep = "say_medication"
           /\ modal'.medData = NoMedData
           /\ modal'.error # "" ]_vars

\* No start, stop or extraction is pending and what is rendered is the state.
AllSettled(m) == Settled(m) /\ m.parseTasks = <<>> /\ ~Dirty(m)

\* C24: once the modal is closed, or the voice state was reset (close, Start
\* Over, manual tab) and no session was started since, and everything
\* pending has settled, the voice step is 'say_medication', no medication is
\* staged and the transcript is empty.
C24_DiscardedOnClose ==
  ((~modal.isOpen \/ ~modal.sessionStarted) /\ AllSettled(modal))
    => /\ modal.voiceStep = "say_medication"
       /\ modal.medData = NoMedData
       /\ modal.currentTranscript = <<>>

\* A parseMedicationFromText call is pending.
ExtractionPending(m) == m.parseTasks # <<>>

\* Not loading, and either the confirm step with a medication staged or the
\* say_medication step with an error text.
Outcome(m) ==
  /\ ~m.isLoading
  /\ \/ m.voiceStep = "confirm" /\ Staged(m.medData)
     \/ m.voiceStep = "say_medication" /\ m.error # ""

\* The step renders, for the first time, a session that is not listening
\* and has a transcript.
StopRendered ==
  /\ ~modal'.rendered.isListening
  /\ modal'.rendered.currentTranscript # <<>>
  /\ <<modal'.rendered.isListening, modal'.rendered.currentTranscript>>
       # <<modal.rendered.isListening, modal.rendered.currentTranscript>>

\* C25: the render of a stopped session with a non-empty transcript calls
\* the extraction; a pending extraction leads to a state that is not loading
\* and is one of the two outcomes (confirm with a staged medication,
\* say_medication with an error text); and the loading flag is never set
\* while no extraction is pending.
C25_ExtractionEnds ==
  /\ [][StopRendered => Len(modal'.parseTasks) > Len(modal.parseTasks)]_vars
  /\ ExtractionPending(modal) ~> Outcome(modal)
  /\ [](~ExtractionPending(modal) => ~modal.isLoading)

\* An extraction returned without a result and the modal is not loading.
C25_Witness ==
  /\ modal.parseCount > 0 /\ ~ExtractionPending(modal)
  /\ ~modal.isLoading
  /\ modal.voiceStep = "say_medication"
  /\ modal.error = "couldnt_understand"

====
